---- MODULE Spec2Model ----
(***************************************************************************)
(* A model of the reinit crate (src/src/lib.rs): the two handle types      *)
(* Initialised<'a, T> and Uninitialised<'a, T> over storage cells that a   *)
(* caller lends to them, the transitions take and init between them, and   *)
(* the panicking destructor of Uninitialised.                              *)
(*                                                                         *)
(* A cell has a physical content (mem) and a logical state (state): Valid  *)
(* when the content is an owned T, Empty when ptr::read has relocated the  *)
(* value out.  handles is the set of handle values alive in the program.   *)
(* last records the operation executed by the latest step with the cells   *)
(* it read or wrote as a T, its argument, its result and whether it        *)
(* raised the drop-time failure.                                           *)
(***************************************************************************)
EXTENDS Integers, FiniteSets, Sequences, TLC

\* Values of the element type T are 0..MaxValue.
MaxValue == 2
\* take is executed at most MaxCycles times, over all cells.
MaxCycles == 2

Values == 0..MaxValue

\* For a T that dereferences (T: Deref), the locations its values point to
\* and what they hold; T::deref of the value v yields Pointee(v).
Pointees == {"p", "q"}
Data == BOOLEAN
Pointee(v) == IF v % 2 = 0 THEN "p" ELSE "q"

\* The storage cells lent to the handles: `n` of the crate example and `b`
\* of the tests.
Cells == {"n", "b"}

\* The ways an Uninitialised can be destroyed other than by init.
DropPaths == {"scope_end", "discard", "early_return", "unwind"}

\* What the build does with a panic that starts outside an unwind.
PanicStrategies == {"unwind", "abort"}

VARIABLES
  mem,       \* mem[c]: the physical content of cell c
  state,     \* state[c]: "Valid" or "Empty", the logical state of cell c
  phase,     \* phase[c]: who has access to cell c
             \*   "owned"  the storage owner, no borrow is live
             \*   "handle" the cell is borrowed through a handle
             \*   "ref"    the caller holds the plain &mut T of into_inner
             \*   "dead"   the storage has been destroyed
  handles,   \* the live handles, records [kind, slot]
  target,    \* target[p]: the content of the pointee p
  proc,      \* "running", "unwinding" (a panic is propagating), "aborted"
  failed,    \* the drop-time failure has been raised
  poisoned,  \* the cells whose Uninitialised was dropped
  cycles,    \* the number of takes executed so far
  orig,      \* orig[c]: {v} when cell c held v when it was last wrapped and
             \*   every init since then gave back the value that the take
             \*   before it returned, {} after any other init
  expect,    \* expect[c]: the value written by the most recent init since
             \*   the wrap, or the wrapped value when there was none
  taken,     \* taken[c]: {v} when the latest take of c returned v and no
             \*   init followed it
  last       \* the latest operation

vars == <<mem, state, phase, handles, target, proc, failed, poisoned,
          cycles, orig, expect, taken, last>>

ghosts == <<orig, expect, taken>>

----------------------------------------------------------------------------
(* The code of the crate, as operators. *)

\* core::ptr::read(p): a bitwise copy of the content of p; p is not altered.
ptr_read(m, p) == m[p]

\* core::ptr::write(p, v): overwrites p with v; the old content is neither
\* read nor dropped.
ptr_write(m, p, v) == [m EXCEPT ![p] = v]

\* Initialised::new: wraps the reference.
new(slot) == [kind |-> "Initialised", slot |-> slot]

\* From<&mut T> for Initialised.
from(slot) == new(slot)

\* An into_inner that returns a reference to another cell.
into_inner_other(self) == CHOOSE c \in Cells : c # self.slot

\* Initialised::into_inner: the wrapped reference.
into_inner(self) == self.slot

\* A take that hands out the default value of T and not the content of the
\* slot.
take_default(self, m) ==
  [ value |-> 0,
    alive |-> {[kind |-> "Uninitialised", slot |-> self.slot]},
    mem   |-> m,
    reads |-> {self.slot},
    moved |-> {self.slot} ]

\* A take through a reference to self: the Initialised stays alive.
take_by_ref(self, m) ==
  [ value |-> ptr_read(m, self.slot),
    alive |-> {self, [kind |-> "Uninitialised", slot |-> self.slot]},
    mem   |-> m,
    reads |-> {self.slot},
    moved |-> {self.slot} ]

\* A take that returns the slot wrapped as it was.
take_same_kind(self, m) ==
  [ value |-> ptr_read(m, self.slot),
    alive |-> {[kind |-> self.kind, slot |-> self.slot]},
    mem   |-> m,
    reads |-> {self.slot},
    moved |-> {self.slot} ]

\* A take in the manner of mem::take: the slot is left with the default
\* value of T.
take_replace(self, m) ==
  [ value |-> ptr_read(m, self.slot),
    alive |-> {[kind |-> "Uninitialised", slot |-> self.slot]},
    mem   |-> [m EXCEPT ![self.slot] = 0],
    reads |-> {self.slot},
    moved |-> {self.slot} ]

\* A take that returns a clone of the content: the slot keeps its value.
take_clone(self, m) ==
  [ value |-> ptr_read(m, self.slot),
    alive |-> {[kind |-> "Uninitialised", slot |-> self.slot]},
    mem   |-> m,
    reads |-> {self.slot},
    moved |-> {} ]

\* Initialised::take consumes self and returns the value read out of the
\* slot with an Uninitialised over the same slot.
\*   alive: the handles that exist for the slot afterwards
\*   mem:   the memory afterwards (ptr::read leaves it as it was)
\*   reads: the cells read as a T
\*   moved: the cells whose value has been relocated out
take(self, m) ==
  [ value |-> ptr_read(m, self.slot),
    alive |-> {[kind |-> "Uninitialised", slot |-> self.slot]},
    mem   |-> m,
    reads |-> {self.slot},
    moved |-> {self.slot} ]

\* An init that wraps the slot without writing the value.
init_no_write(self, value, m) ==
  [ mem     |-> m,
    ret     |-> new(self.slot),
    reads   |-> {},
    writes  |-> {self.slot},
    dropped |-> {} ]

\* An init that lets self go out of scope: its destructor runs.
init_drops_self(self, value, m) ==
  [ mem     |-> ptr_write(m, self.slot, value),
    ret     |-> new(self.slot),
    reads   |-> {},
    writes  |-> {self.slot},
    dropped |-> {self} ]

\* An init that assigns (*slot = value): the assignment drops the old
\* content of the slot as a T before it writes.
init_assign(self, value, m) ==
  [ mem     |-> ptr_write(m, self.slot, value),
    ret     |-> new(self.slot),
    reads   |-> {self.slot},
    writes  |-> {self.slot},
    dropped |-> {} ]

\* An init that takes a wrong pointer out of self.
init_wrong_slot(self, value, m) ==
  LET slot == CHOOSE c \in Cells : c # self.slot
  IN  [ mem     |-> ptr_write(m, slot, value),
        ret     |-> new(slot),
        reads   |-> {},
        writes  |-> {slot},
        dropped |-> {} ]

\* Uninitialised::init consumes self: self is moved into a MaybeUninit, so
\* that its destructor does not run, the pointer is taken back out of it,
\* value is written to the slot with ptr::write and the slot is wrapped.
\*   reads, writes: the cells read and written as a T
\*   dropped: the handles whose destructor runs
init(self, value, m) ==
  LET slot == self.slot
  IN  [ mem     |-> ptr_write(m, slot, value),
        ret     |-> new(slot),
        reads   |-> {},
        writes  |-> {slot},
        dropped |-> {} ]

\* A destructor that does not panic while another panic unwinds.
drop_unless_panicking(self, path) == path # "unwind"

\* Drop for Uninitialised: TRUE when the destructor panics.
drop_Uninitialised(self, path) == TRUE

\* An Initialised whose destruction panics.
drop_Initialised_panics(self) == TRUE

\* Initialised has no Drop implementation: its destruction never panics.
drop_Initialised(self) == FALSE

\* Deref for Initialised where T: Deref: self.slot.deref().
deref(self, m, t) ==
  [ value |-> t[Pointee(m[self.slot])], reads |-> {self.slot} ]

\* A deref_mut that hands out a reference into a copy of the T: the write
\* does not reach the pointee.
deref_mut_on_copy(self, m, t, d) ==
  [ target |-> t, reads |-> {self.slot} ]

\* DerefMut for Initialised where T: DerefMut: a write of d through
\* self.slot.deref_mut().
deref_mut(self, m, t, d) ==
  [ target |-> [t EXCEPT ![Pointee(m[self.slot])] = d], reads |-> {self.slot} ]

\* The element types of the size test and the size of a raw pointer to a T;
\* every T of the handles is Sized, so that the pointer is thin.
ElemTypes == {"bool", "i32"}
PtrSize == 8

\* The size of a field of a handle over a T: the reference of Initialised
\* and the raw pointer of Uninitialised are pointers, PhantomData has no
\* size; a flag is a byte.
FieldSize(f, T) ==
  CASE f \in {"slot_ref", "slot_ptr"} -> PtrSize
    [] f = "_phantom" -> 0
    [] OTHER -> 1

\* An Uninitialised that carries a flag to disarm its destructor.
Fields_with_flag(kind) ==
  IF kind = "Initialised" THEN <<"slot_ref">>
  ELSE <<"slot_ptr", "_phantom", "armed">>

\* The fields of the two structs.
Fields(kind) ==
  IF kind = "Initialised" THEN <<"slot_ref">>
  ELSE <<"slot_ptr", "_phantom">>

RECURSIVE SumSizes(_, _)
SumSizes(fs, T) ==
  IF fs = <<>> THEN 0 ELSE FieldSize(Head(fs), T) + SumSizes(Tail(fs), T)

\* core::mem::size_of of a handle type over T: both structs are
\* repr(transparent), without padding or tag.
size_of(kind, T) == SumSizes(Fields(kind), T)

----------------------------------------------------------------------------
NoCell == "-"

Op(op, c, path, reads, writes, arg, ret, panicked) ==
  [ op |-> op, cell |-> c, path |-> path, reads |-> reads, writes |-> writes,
    arg |-> arg, ret |-> ret, panicked |-> panicked ]

HandlesOf(c) == {h \in handles : h.slot = c}

Init ==
  /\ mem \in [Cells -> Values]
  /\ state = [c \in Cells |-> "Valid"]
  /\ phase = [c \in Cells |-> "owned"]
  /\ handles = {}
  /\ target = [p \in Pointees |-> FALSE]
  /\ proc = "running"
  /\ failed = FALSE
  /\ poisoned = {}
  /\ cycles = 0
  /\ orig = [c \in Cells |-> {mem[c]}]
  /\ expect = mem
  /\ taken = [c \in Cells |-> {}]
  /\ last = Op("start", NoCell, "-", {}, {}, {}, {}, FALSE)

\* Wrapping a cell.  The argument of new is a &'a mut T: an exclusive
\* reference to a valid T, which the owner of a cell that is not borrowed
\* can make, and which the caller holds after into_inner.
Wrap(c, op) ==
  /\ proc = "running"
  /\ phase[c] \in {"owned", "ref"}
  /\ state[c] = "Valid"
  /\ handles' = handles \cup {IF op = "from" THEN from(c) ELSE new(c)}
  /\ phase' = [phase EXCEPT ![c] = "handle"]
  /\ orig' = [orig EXCEPT ![c] = {mem[c]}]
  /\ expect' = [expect EXCEPT ![c] = mem[c]]
  /\ taken' = [taken EXCEPT ![c] = {}]
  /\ last' = Op(op, c, "-", {}, {}, {}, {}, FALSE)
  /\ UNCHANGED <<mem, state, target, proc, failed, poisoned, cycles>>

New(c) == Wrap(c, "new")

From(c) == Wrap(c, "from")

IntoInner(h) ==
  /\ proc = "running"
  /\ h \in handles /\ h.kind = "Initialised"
  /\ handles' = handles \ {h}
  /\ phase' = [phase EXCEPT ![into_inner(h)] = "ref"]
  /\ last' = Op("into_inner", into_inner(h), "-", {}, {}, {}, {}, FALSE)
  /\ UNCHANGED <<mem, state, target, proc, failed, poisoned, cycles, ghosts>>

\* A read through the reference that into_inner returned.
RefRead(c) ==
  /\ proc = "running"
  /\ phase[c] = "ref"
  /\ last' = Op("ref_read", c, "-", {c}, {}, {}, {mem[c]}, FALSE)
  /\ UNCHANGED <<mem, state, phase, handles, target, proc, failed, poisoned,
                 cycles, ghosts>>

\* The reference that into_inner returned goes out of scope.
EndBorrow(c) ==
  /\ proc = "running"
  /\ phase[c] = "ref"
  /\ phase' = [phase EXCEPT ![c] = "owned"]
  /\ last' = Op("end_borrow", c, "-", {}, {}, {}, {}, FALSE)
  /\ UNCHANGED <<mem, state, handles, target, proc, failed, poisoned,
                 cycles, ghosts>>

\* The owner of the storage reads its variable.
OwnerRead(c) ==
  /\ proc = "running"
  /\ phase[c] = "owned"
  /\ last' = Op("owner_read", c, "-", {c}, {}, {}, {mem[c]}, FALSE)
  /\ UNCHANGED <<mem, state, phase, handles, target, proc, failed, poisoned,
                 cycles, ghosts>>

Take(h) ==
  /\ proc = "running"
  /\ h \in handles /\ h.kind = "Initialised"
  /\ cycles < MaxCycles
  /\ LET r == take(h, mem)
     IN  /\ handles' = (handles \ {h}) \cup r.alive
         /\ state' = [c \in Cells |-> IF c \in r.moved THEN "Empty" ELSE state[c]]
         /\ mem' = r.mem
         /\ taken' = [taken EXCEPT ![h.slot] = {r.value}]
         /\ last' = Op("take", h.slot, "-", r.reads, {}, {}, {r.value}, FALSE)
  /\ cycles' = cycles + 1
  /\ UNCHANGED <<phase, target, proc, failed, poisoned, orig, expect>>

\* The outcome of a panic raised by a destructor on the given path: a panic
\* raised while another one unwinds aborts the process.
Outcomes(path) ==
  IF path = "unwind" THEN {"aborted"}
  ELSE {IF s = "unwind" THEN "unwinding" ELSE "aborted" : s \in PanicStrategies}

InitOp(h, w) ==
  /\ proc = "running"
  /\ h \in handles /\ h.kind = "Uninitialised"
  /\ LET r == init(h, w, mem)
         p == \E d \in r.dropped : drop_Uninitialised(d, "scope_end")
     IN  /\ mem' = r.mem
         /\ handles' = (handles \ {h}) \cup {r.ret}
         /\ state' = [c \in Cells |-> IF c \in r.writes THEN "Valid" ELSE state[c]]
         /\ failed' = (failed \/ p)
         /\ proc' \in (IF p THEN Outcomes("scope_end") ELSE {proc})
         /\ poisoned' = poisoned
         /\ expect' = [expect EXCEPT ![h.slot] = w]
         /\ orig' = [orig EXCEPT ![h.slot] = IF {w} = taken[h.slot] THEN @ ELSE {}]
         /\ taken' = [taken EXCEPT ![h.slot] = {}]
         /\ last' = Op("init", h.slot, "-", r.reads, r.writes, {w}, {}, p)
  /\ UNCHANGED <<phase, target, cycles>>

\* A read through an Initialised whose T dereferences.
Deref(h) ==
  /\ proc = "running"
  /\ h \in handles /\ h.kind = "Initialised"
  /\ LET r == deref(h, mem, target)
     IN  last' = Op("deref", h.slot, "-", r.reads, {}, {}, {r.value}, FALSE)
  /\ UNCHANGED <<mem, state, phase, handles, target, proc, failed, poisoned,
                 cycles, ghosts>>

\* A write of d through an Initialised whose T dereferences mutably.
DerefMut(h, d) ==
  /\ proc = "running"
  /\ h \in handles /\ h.kind = "Initialised"
  /\ LET r == deref_mut(h, mem, target, d)
     IN  /\ target' = r.target
         /\ last' = Op("deref_mut", h.slot, "-", r.reads, {}, {d}, {}, FALSE)
  /\ UNCHANGED <<mem, state, phase, handles, proc, failed, poisoned,
                 cycles, ghosts>>

\* The destruction of an Initialised: the borrow ends, nothing else happens.
DropInit(h) ==
  /\ proc \in {"running", "unwinding"}
  /\ h \in handles /\ h.kind = "Initialised"
  /\ handles' = handles \ {h}
  /\ phase' = [phase EXCEPT ![h.slot] = "owned"]
  /\ failed' = (failed \/ drop_Initialised(h))
  /\ last' = Op("drop_Initialised", h.slot, "-", {}, {}, {}, {},
                drop_Initialised(h))
  /\ UNCHANGED <<mem, state, target, proc, poisoned, cycles, ghosts>>

\* The destruction of an Uninitialised on one of the paths: while running,
\* at the end of its scope, as a discarded result or at an early return;
\* while a panic of the caller unwinds, on the unwind path.
DropUninit(h, path) ==
  /\ h \in handles /\ h.kind = "Uninitialised"
  /\ \/ proc = "running"
     \/ proc = "unwinding" /\ path = "unwind"
  /\ LET p == drop_Uninitialised(h, path)
     IN  /\ failed' = (failed \/ p)
         /\ proc' \in (IF p THEN Outcomes(path)
                       ELSE IF path = "unwind" THEN {"unwinding"} ELSE {proc})
         /\ poisoned' = (IF p THEN poisoned \cup {h.slot} ELSE poisoned)
         /\ last' = Op("drop_Uninitialised", h.slot, path, {}, {}, {}, {}, p)
  /\ handles' = handles \ {h}
  /\ phase' = [phase EXCEPT ![h.slot] = "owned"]
  /\ UNCHANGED <<mem, state, target, cycles, ghosts>>

\* The Uninitialised is moved into a MaybeUninit (as init does with self),
\* a ManuallyDrop or mem::forget: it ceases to exist and no destructor runs.
ForgetUninit(h) ==
  /\ proc = "running"
  /\ h \in handles /\ h.kind = "Uninitialised"
  /\ handles' = handles \ {h}
  /\ phase' = [phase EXCEPT ![h.slot] = "owned"]
  /\ last' = Op("forget", h.slot, "-", {}, {}, {}, {}, FALSE)
  /\ UNCHANGED <<mem, state, target, proc, failed, poisoned, cycles, ghosts>>

\* The unwind leaves the frame that owns the storage of a cell that is not
\* borrowed: the storage is destroyed and the drop glue of T runs on it.
OwnerDrop(c) ==
  /\ proc = "unwinding"
  /\ phase[c] = "owned"
  /\ phase' = [phase EXCEPT ![c] = "dead"]
  /\ last' = Op("owner_drop", c, "-", {c}, {}, {}, {}, FALSE)
  /\ UNCHANGED <<mem, state, handles, target, proc, failed, poisoned,
                 cycles, ghosts>>

\* The unwind reaches a frame that catches it (catch_unwind, the harness of
\* a should_panic test): the handles and references of the unwound frames
\* are gone and the program continues.
Catch ==
  /\ proc = "unwinding"
  /\ handles = {}
  /\ proc' = "running"
  /\ phase' = [c \in Cells |-> IF phase[c] = "ref" THEN "owned" ELSE phase[c]]
  /\ last' = Op("catch", NoCell, "-", {}, {}, {}, {}, FALSE)
  /\ UNCHANGED <<mem, state, handles, target, failed, poisoned, cycles, ghosts>>

Next ==
  \/ \E c \in Cells : New(c)
  \/ \E c \in Cells : From(c)
  \/ \E h \in handles : IntoInner(h)
  \/ \E c \in Cells : RefRead(c)
  \/ \E c \in Cells : EndBorrow(c)
  \/ \E c \in Cells : OwnerRead(c)
  \/ \E h \in handles : Take(h)
  \/ \E h \in handles, w \in Values : InitOp(h, w)
  \/ \E h \in handles : Deref(h)
  \/ \E h \in handles, d \in Data : DerefMut(h, d)
  \/ \E h \in handles : DropInit(h)
  \/ \E h \in handles, path \in DropPaths : DropUninit(h, path)
  \/ \E h \in handles : ForgetUninit(h)
  \/ \E c \in Cells : OwnerDrop(c)
  \/ Catch

Spec == Init /\ [][Next]_vars

----------------------------------------------------------------------------
(* The claims. *)

Uninit(c) == [kind |-> "Uninitialised", slot |-> c]

\* C1: an Uninitialised that is destroyed by a path other than init (end of
\* scope, discarded result, early return, unwind) always raises the failure.
C1_DropAlwaysFails ==
  last.op = "drop_Uninitialised" => last.panicked /\ failed /\ proc # "running"

C1_Witness ==
  /\ last.op = "drop_Uninitialised"
  /\ last.path = "unwind"
  /\ failed
  /\ proc = "aborted"

\* C2: when the borrow of a cell has ended and no drop-time failure has been
\* raised, the cell is Valid.
C2_BorrowEndsValid ==
  \A c \in Cells : (phase[c] = "owned" /\ ~failed) => state[c] = "Valid"

\* C3: new, take and init with the value that take returned give an
\* Initialised over a cell that holds the value it held when it was wrapped,
\* and a read through the reference of into_inner reads that value.
C3_RoundTrip ==
  /\ \A c \in Cells : (orig[c] # {} /\ state[c] = "Valid") => orig[c] = {mem[c]}
  /\ (last.op = "init" /\ orig[last.cell] # {}) =>
        /\ HandlesOf(last.cell) = {new(last.cell)}
        /\ last.arg = orig[last.cell]
  /\ (last.op = "ref_read" /\ orig[last.cell] # {}) => last.ret = orig[last.cell]

C3_Witness ==
  /\ last.op = "init"
  /\ last.arg = {MaxValue}
  /\ orig[last.cell] = {MaxValue}
  /\ mem[last.cell] = MaxValue
  /\ new(last.cell) \in handles

\* C4: take returns the value written by the most recent init, or the value
\* the cell held when it was wrapped; after init(w) the cell holds w; a Valid
\* cell holds the value of the last init.
C4_TakeInitValues ==
  /\ last.op = "take" => last.ret = {expect[last.cell]}
  /\ last.op = "init" => last.arg = {mem[last.cell]}
  /\ \A c \in Cells : state[c] = "Valid" => mem[c] = expect[c]

C4_Witness ==
  /\ last.op = "take"
  /\ cycles = MaxCycles
  /\ orig[last.cell] = {}
  /\ last.ret = {expect[last.cell]}

\* C5: init raises no failure and consumes the Uninitialised: after the step
\* of init no failure has been added and no Uninitialised is left for the
\* cell whose destructor could run later.
C5_InitConsumes ==
  [][ last'.op = "init" =>
        /\ ~last'.panicked
        /\ failed' = failed
        /\ proc' = proc
        /\ Uninit(last'.cell) \notin handles' ]_vars

C5_Witness ==
  /\ last.op = "init"
  /\ ~failed
  /\ proc = "running"
  /\ handles = {new(last.cell)}

\* C6: while a cell is borrowed through the handles exactly one handle exists
\* for it, and no handle exists for it otherwise.
C6_OneHandle ==
  \A c \in Cells :
    IF phase[c] = "handle" THEN Cardinality(HandlesOf(c)) = 1
    ELSE HandlesOf(c) = {}

C6_Witness ==
  /\ last.op = "init"
  /\ \A c \in Cells : phase[c] = "handle"
  /\ Cardinality(handles) = Cardinality(Cells)

C8_NoUseAfterFailure ==
  \A c \in poisoned : c \notin last.reads

\* C9: while an Uninitialised exists for a cell no operation reads the cell
\* as a T, and only init writes it.
C9_NoAccessWhileEmpty ==
  [][ \A c \in Cells : Uninit(c) \in handles =>
        /\ c \notin last'.reads
        /\ c \in last'.writes => (last'.op = "init" /\ last'.cell = c)
        /\ mem'[c] # mem[c] => (last'.op = "init" /\ last'.cell = c) ]_vars

C9_Witness ==
  /\ last.op = "init"
  /\ last.writes = {last.cell}
  /\ last.reads = {}
  /\ \E c \in Cells : c # last.cell /\ Uninit(c) \in handles

InitialisedOps ==
  {"new", "from", "into_inner", "take", "deref", "deref_mut", "drop_Initialised"}

\* C10: no operation on an Initialised raises a failure; the only step that
\* raises one is the drop of an Uninitialised.
C10_OnlyDropFails ==
  [][ /\ last'.op \in InitialisedOps =>
            (~last'.panicked /\ failed' = failed /\ proc' = proc)
      /\ (last'.panicked \/ failed' # failed \/ proc' \in {"unwinding", "aborted"} \ {proc}) =>
            last'.op = "drop_Uninitialised" ]_vars

C10_Witness ==
  /\ last.op = "drop_Initialised"
  /\ ~failed
  /\ proc = "running"
  /\ cycles = MaxCycles

\* C11: new, from, into_inner and the destruction of an Initialised leave
\* the content of every cell and its state as they were, the cell of the
\* handle being Valid; into_inner gives up the handle for a reference to the
\* cell that was wrapped, which still holds the value it held at the wrap
\* when no other value was written in between.
C11_WrapUnwrapFrame ==
  [][ /\ last'.op \in {"new", "from", "into_inner", "drop_Initialised"} =>
            /\ mem' = mem
            /\ state' = state
            /\ target' = target
            /\ state'[last'.cell] = "Valid"
      /\ last'.op = "into_inner" =>
            /\ handles \ handles' = {new(last'.cell)}
            /\ handles' \subseteq handles
            /\ phase'[last'.cell] = "ref"
            /\ \A c \in Cells \ {last'.cell} : phase'[c] = phase[c]
            /\ orig[last'.cell] # {} => orig[last'.cell] = {mem'[last'.cell]} ]_vars

C11_Witness ==
  /\ last.op = "into_inner"
  /\ cycles = 0
  /\ phase[last.cell] = "ref"
  /\ state[last.cell] = "Valid"
  /\ orig[last.cell] = {MaxValue}
  /\ mem[last.cell] = MaxValue

\* C12: take leaves the physical content of every cell as it was, and the
\* content of an Empty cell changes only when init writes that cell.
C12_TakeKeepsContent ==
  [][ /\ last'.op = "take" =>
            /\ mem' = mem
            /\ state'[last'.cell] = "Empty"
      /\ \A c \in Cells : (state[c] = "Empty" /\ mem'[c] # mem[c]) =>
            (last'.op = "init" /\ last'.cell = c /\ last'.arg = {mem'[c]}) ]_vars

C12_Witness ==
  /\ last.op = "take"
  /\ state[last.cell] = "Empty"
  /\ last.ret = {MaxValue}
  /\ mem[last.cell] = MaxValue

\* C13: a read through an Initialised returns what a read through the
\* wrapped T returns, a write through an Initialised changes the pointee of
\* the wrapped T and nothing else, and the cell stays Valid.
C13_DerefPassThrough ==
  [][ /\ last'.op = "deref" =>
            /\ last'.ret = {target[Pointee(mem[last'.cell])]}
            /\ target' = target
            /\ mem' = mem
            /\ state' = state
            /\ state'[last'.cell] = "Valid"
      /\ last'.op = "deref_mut" =>
            /\ \E d \in Data :
                  /\ last'.arg = {d}
                  /\ target' = [target EXCEPT ![Pointee(mem[last'.cell])] = d]
            /\ mem' = mem
            /\ state' = state
            /\ state'[last'.cell] = "Valid" ]_vars

C13_Witness ==
  /\ last.op = "deref"
  /\ last.ret = {TRUE}
  /\ target[Pointee(mem[last.cell])]
  /\ \E p \in Pointees : ~target[p]

\* C14: for every element type, an Initialised and an Uninitialised have the
\* size of a raw pointer to it.
C14_PointerSized ==
  /\ \A T \in ElemTypes, kind \in {"Initialised", "Uninitialised"} :
        size_of(kind, T) = PtrSize
  /\ \A h \in handles, T \in ElemTypes : size_of(h.kind, T) = PtrSize

C14_Witness ==
  /\ \E h \in handles : h.kind = "Initialised" /\ size_of(h.kind, "bool") = PtrSize
  /\ \E h \in handles : h.kind = "Uninitialised" /\ size_of(h.kind, "i32") = PtrSize

\* C15: take and init return a handle over the cell of the handle they
\* consume, no step writes another cell than the one of the handle it
\* consumes, and into_inner returns a reference to that cell.
C15_SameLocation ==
  [][ /\ last'.op \in {"take", "init"} =>
            /\ {h.slot : h \in handles'} = {h.slot : h \in handles}
            /\ \E h \in handles \ handles' :
                  /\ h.slot = last'.cell
                  /\ \A g \in handles' \ handles : g.slot = h.slot
            /\ last'.writes \subseteq {last'.cell}
            /\ phase' = phase
      /\ \A c \in Cells : mem'[c] # mem[c] =>
            /\ last'.op = "init"
            /\ last'.cell = c
            /\ phase[c] = "handle"
      /\ last'.op = "into_inner" =>
            /\ phase[last'.cell] = "handle"
            /\ new(last'.cell) \in handles ]_vars

C15_Witness ==
  /\ last.op = "into_inner"
  /\ cycles = MaxCycles
  /\ phase[last.cell] = "ref"
  /\ orig[last.cell] = {}
  /\ mem[last.cell] = expect[last.cell]
  /\ \A c \in Cells \ {last.cell} : phase[c] = "owned" /\ orig[c] = {mem[c]}

\* The logical owners of the value of a cell: the cell while it is Valid,
\* the caller while it holds the value that take relocated out.
Owners(c) ==
  (IF state[c] = "Valid" THEN 1 ELSE 0) + Cardinality(taken[c])

====
